---- MODULE Spec2Model ----
(***************************************************************************)
(* Lead qualification pipeline of edge-city-finder: the discovery engine   *)
(* (app/scout/agent.py), the verification and scoring engine               *)
(* (app/analyst/agent.py), the orchestrator (app/main.py) and the          *)
(* persistence layer it upserts into (app/database.py).                    *)
(*                                                                         *)
(* Three specifications share the definitions below:                       *)
(*   AnalystSpec  one lead through verify_property / analyze_property      *)
(*   ScoutSpec    one find_candidates call, one search query per step      *)
(*   RerunSpec    find_candidates, then again on what the first call found *)
(*   Spec         run_scout: read known URLs, discover, verify, upsert     *)
(*   StoreSpec    two run_scout requests and the endpoints that write a    *)
(*                row, interleaved against one store                       *)
(*   NormalizeSpec, LocationSpec   calls of _normalize_url and of          *)
(*                _extract_location on drawn arguments                     *)
(***************************************************************************)
EXTENDS Integers, Sequences, FiniteSets, TLC

VARIABLES
    \* configuration (app/config.py): which credentials are set
    exa_key, tavily_key, gemini_key,
    \* AnalystSpec: the lead in the agent's hands and the agent's position
    prop, a_pc, a_last, calls, clock,
    \* ScoutSpec: the arguments and locals of find_candidates, its position,
    \* and a log of the queries it has issued
    existing_urls, custom_query, categories, queries_to_run,
    found_properties, seen_urls, s_pc, s_qi, s_log,
    \* RerunSpec: what the providers answered in the first call, replayed
    \* in the second
    s_replay,
    \* Spec: the store (app/database.py), and the locals and position of
    \* run_scout
    db_key, store, should_verify, properties, verified_properties, r_pc, r_log,
    \* StoreSpec: the requests in flight against the store, each with its
    \* position and locals
    runs,
    \* NormalizeSpec, LocationSpec: the arguments and results of the calls of
    \* a pure helper
    fn

analyst_vars == <<prop, a_pc, a_last, calls, clock>>
scout_vars == <<existing_urls, custom_query, categories, queries_to_run,
                found_properties, seen_urls, s_pc, s_qi, s_log, s_replay>>
run_vars == <<db_key, store, should_verify, properties, verified_properties,
              r_pc, r_log, runs, fn>>
config_vars == <<exa_key, tavily_key, gemini_key>>
vars == <<config_vars, analyst_vars, scout_vars, run_vars>>

(***************************************************************************)
(* Python values.  An Optional field is None or Some(x); a decoded JSON    *)
(* object is a function from the keys it has to their values, so a key     *)
(* that is missing and a key that is null are different things.            *)
(***************************************************************************)
None == <<>>
Some(x) == <<x>>
Absent == <<"absent", "key">>

\* the JSON object that has the keys of `full` whose value is not Absent
MkObject(full) == [k \in {j \in DOMAIN full : full[j] # Absent} |-> full[k]]

\* dict.get(key) and dict.get(key, default)
DictGet(d, key) == IF key \in DOMAIN d THEN d[key] ELSE None
DictGetDefault(d, key, default) == IF key \in DOMAIN d THEN d[key] ELSE default

\* Python truth value of a number-or-None, of a text-or-None, of a bool-or-None
Truthy(v) == v \notin {None, Some(0)}
TruthyText(v) == v \notin {None, Some("")}
TruthyBool(v) == v = Some(TRUE)

(***************************************************************************)
(* The LLM's reply is free text.  It is modelled as a sequence of tokens:  *)
(* prose, an opening brace, a closing brace, or the members of one JSON    *)
(* object (well-formed members between braces decode to that object).      *)
(***************************************************************************)
Prose == [t |-> "prose"]
LBrace == [t |-> "{"]
RBrace == [t |-> "}"]
Members(d) == [t |-> "members", data |-> d]

\* re.search(r'\{.*\}', text, re.DOTALL): from the first "{" to the last "}"
\* after it; None when there is no such span
re_search(text) ==
    LET opens == {i \in 1..Len(text) : text[i].t = "{"}
    IN  IF opens = {} THEN None
        ELSE LET first == CHOOSE i \in opens : \A j \in opens : i <= j
                 closes == {i \in (first + 1)..Len(text) : text[i].t = "}"}
             IN  IF closes = {} THEN None
                 ELSE LET last == CHOOSE i \in closes : \A j \in closes : i >= j
                      IN  Some(SubSeq(text, first, last))

\* json.loads of a brace-delimited span: the object, or a decode error
json_loads(span) ==
    IF Len(span) = 2
    THEN [ok |-> TRUE, data |-> MkObject([none |-> Absent])]
    ELSE IF Len(span) = 3 /\ span[2].t = "members"
    THEN [ok |-> TRUE, data |-> span[2].data]
    ELSE [ok |-> FALSE]

(***************************************************************************)
(* AnalystAgent                                                            *)
(***************************************************************************)
\* verify_url: the HEAD probe either returns a status code or fails
verify_url(probe) ==
    IF probe.kind = "error"
    THEN [ok |-> FALSE, status |-> "Error accessing URL: " \o probe.detail]
    ELSE IF probe.code = 200 THEN [ok |-> TRUE, status |-> "URL accessible"]
    ELSE IF probe.code = 404 THEN [ok |-> FALSE, status |-> "URL not found (404)"]
    ELSE [ok |-> FALSE, status |-> "HTTP " \o ToString(probe.code)]

\* (mutant) the extracted stats are stored whatever the verdict holds for them
VerifyUpdateAlwaysOverwrites(p, data, now) ==
    [p EXCEPT
       !.verification_result =
           IF TruthyBool(DictGet(data, "is_available"))
           THEN Some("available") ELSE Some("not_available"),
       !.verification_reason = DictGetDefault(data, "reason", Some("")),
       !.funnel_stage = DictGetDefault(data, "classification", Some("interesting")),
       !.last_verified_at = Some(now),
       !.price = DictGet(data, "extracted_price"),
       !.bed_count = DictGet(data, "extracted_beds"),
       !.acreage = DictGet(data, "extracted_acreage")]

\* the assignments of verify_property after a successful json.loads
VerifyUpdate(p, data, now) ==
    LET p1 == [p EXCEPT
                 !.verification_result =
                     IF TruthyBool(DictGet(data, "is_available"))
                     THEN Some("available") ELSE Some("not_available"),
                 !.verification_reason = DictGetDefault(data, "reason", Some("")),
                 !.funnel_stage =
                     DictGetDefault(data, "classification", Some("interesting")),
                 !.last_verified_at = Some(now)]
        p2 == IF TruthyText(DictGet(data, "extracted_price"))
              THEN [p1 EXCEPT !.price = data["extracted_price"]] ELSE p1
        p3 == IF Truthy(DictGet(data, "extracted_beds"))
              THEN [p2 EXCEPT !.bed_count = data["extracted_beds"]] ELSE p2
    IN  IF Truthy(DictGet(data, "extracted_acreage"))
        THEN [p3 EXCEPT !.acreage = data["extracted_acreage"]] ELSE p3

\* the except branch of verify_property
VerifyError(p, detail, now) ==
    [p EXCEPT !.verification_result = Some("error"),
              !.verification_reason = Some(detail),
              !.funnel_stage = Some("interesting"),
              !.last_verified_at = Some(now)]

\* the try block of verify_property: generate_content, re.search, json.loads
VerifyClassify(p, llm, now) ==
    IF llm.kind = "raise" THEN VerifyError(p, llm.detail, now)
    ELSE LET match == re_search(llm.text)
         IN  IF match = None THEN p
             ELSE LET decoded == json_loads(match[1])
                  IN  IF decoded.ok THEN VerifyUpdate(p, decoded.data, now)
                      ELSE VerifyError(p, "JSONDecodeError", now)

\* verify_property once a credential is known to be configured: the probe,
\* then the classification
VerifyProbed(p, probe, llm, now) ==
    LET u == verify_url(probe)
    IN  IF ~u.ok
        THEN [prop |-> [p EXCEPT !.verification_result = Some("invalid_url"),
                                 !.verification_reason = Some(u.status),
                                 !.funnel_stage = Some("dismissed"),
                                 !.last_verified_at = Some(now)],
              calls |-> <<"probe">>]
        ELSE [prop |-> VerifyClassify(p, llm, now),
              calls |-> <<"probe", "llm_verify">>]

\* (mutant) the early return of the credential check is missing
verify_property_no_return(p, model, probe, llm, now) ==
    VerifyProbed(IF model THEN p ELSE [p EXCEPT !.funnel_stage = Some("qualified")],
                 probe, llm, now)

\* verify_property: the lead it returns and the external calls it issued
verify_property(p, model, probe, llm, now) ==
    IF ~model
    THEN [prop |-> [p EXCEPT !.funnel_stage = Some("qualified")], calls |-> <<>>]
    ELSE VerifyProbed(p, probe, llm, now)

\* the assignments of analyze_property after a successful json.loads
AnalyzeUpdate(p, data) ==
    LET p1 == [p EXCEPT !.score = DictGetDefault(data, "score", p.score),
                        !.ai_summary = DictGetDefault(data, "ai_summary", p.ai_summary)]
        p2 == IF Truthy(DictGet(data, "inferred_beds")) /\ ~Truthy(p1.bed_count)
              THEN [p1 EXCEPT !.bed_count = DictGet(data, "inferred_beds")] ELSE p1
    IN  IF Truthy(DictGet(data, "inferred_acreage")) /\ ~Truthy(p2.acreage)
        THEN [p2 EXCEPT !.acreage = DictGet(data, "inferred_acreage")] ELSE p2

\* (mutant) only the failure of the LLM call is caught
AnalyzeCatchesLlmOnly(exc) == exc # "JSONDecodeError"

\* except Exception of analyze_property: every exception of the try block is
\* swallowed
AnalyzeCatches(exc) == TRUE

\* the try block of analyze_property: generate_content, re.search,
\* json.loads; the lead, and the exception raised inside the block (None:
\* none)
AnalyzeTry(p, llm) ==
    IF llm.kind = "raise" THEN [prop |-> p, exc |-> Some(llm.detail)]
    ELSE LET match == re_search(llm.text)
         IN  IF match = None THEN [prop |-> p, exc |-> None]
             ELSE LET decoded == json_loads(match[1])
                  IN  IF decoded.ok
                      THEN [prop |-> AnalyzeUpdate(p, decoded.data), exc |-> None]
                      ELSE [prop |-> p, exc |-> Some("JSONDecodeError")]

\* analyze_property: the lead it returns, the external calls it issued and
\* the exception that leaves it (None: it returns)
analyze_property(p, model, llm) ==
    IF ~model THEN [prop |-> p, calls |-> <<>>, raised |-> None]
    ELSE LET out == AnalyzeTry(p, llm)
         IN  [prop |-> out.prop, calls |-> <<"llm_analyze">>,
              raised |-> IF out.exc # None /\ ~AnalyzeCatches(out.exc[1])
                         THEN out.exc ELSE None]

\* (mutant) every verified lead is analyzed
ShouldAnalyzeAlways(p) == TRUE

\* verify_and_analyze analyzes only a qualified or interesting lead
ShouldAnalyze(p) == p.funnel_stage \in {Some("qualified"), Some("interesting")}

(***************************************************************************)
(* ScoutAgent: text utilities.  A URL is a sequence of tokens: the         *)
(* separators "/", "?" and "#" and words that contain none of them.        *)
(***************************************************************************)
\* s.split(sep)[0]: what precedes the first sep (all of s without one)
SplitFirst(s, sep) ==
    LET at == {i \in 1..Len(s) : s[i] = sep}
    IN  IF at = {} THEN s
        ELSE SubSeq(s, 1, (CHOOSE i \in at : \A j \in at : i <= j) - 1)

\* s.rstrip(ch)
RECURSIVE RStrip(_, _)
RStrip(s, ch) ==
    IF s # <<>> /\ s[Len(s)] = ch THEN RStrip(SubSeq(s, 1, Len(s) - 1), ch) ELSE s

\* (mutant) the trailing slash is kept
normalize_url_keep_slash(url) == SplitFirst(SplitFirst(url, "?"), "#")

\* _normalize_url
normalize_url(url) == RStrip(SplitFirst(SplitFirst(url, "?"), "#"), "/")

\* `site in url_lower` for some site of the list: the sites are words
ContainsAny(url, sites) == \E i \in 1..Len(url) : url[i] \in sites

\* the channels whose name contains 'legal' or 'foreclosure'
LegalChannels == {"exa_legal", "exa_foreclosure"}

\* _determine_source_type
determine_source_type(url, discovered_via) ==
    IF ContainsAny(url, {"loopnet", "crexi", "landwatch", "landsofamerica"})
    THEN "listing"
    ELSE IF ContainsAny(url, {"auction.com", "ten-x", "hubzu"}) THEN "auction"
    ELSE IF ContainsAny(url, {"news", "journal", "times", "post", "herald",
                              "nytimes", "wsj"})
    THEN "news"
    ELSE IF discovered_via \in LegalChannels THEN "foreclosure"
    ELSE "news"

(***************************************************************************)
(* ScoutAgent: the query catalog                                           *)
(***************************************************************************)
SEARCH_QUERIES ==
    [platforms |->
        << <<"site:loopnet.com college campus for sale", "exa_loopnet">>,
           <<"site:crexi.com institutional property for sale", "exa_crexi">>,
           <<"site:auction.com commercial property foreclosure", "exa_auction">>,
           <<"site:ten-x.com hotel resort auction", "exa_tenx">>,
           <<"site:landwatch.com large acreage retreat center", "exa_landwatch">>,
           <<"site:landsofamerica.com campus dormitory for sale",
             "exa_landsofamerica">> >>,
     news |->
        << <<"college closing announcement campus for sale", "exa_news">>,
           <<"university shutdown bankruptcy real estate", "exa_news">>,
           <<"resort hotel foreclosure auction rural", "exa_news">>,
           <<"summer camp property sale closing", "exa_news">>,
           <<"boarding school closing campus available", "exa_news">>,
           <<"monastery convent sold conversion opportunity", "exa_news">> >>,
     distress |->
        << <<"WARN Act notice college layoffs closure", "exa_legal">>,
           <<"Chapter 11 bankruptcy college university campus", "exa_legal">>,
           <<"foreclosure rural hotel resort property", "exa_foreclosure">>,
           <<"abandoned institutional building redevelopment", "exa_distress">> >>]

tavily_queries ==
    <<"college campus for sale closing 2025 2026",
      "rural resort hotel foreclosure auction",
      "summer camp property sale available">>

\* the model runs the first MaxPerCategory queries of each category and the
\* first MaxTavilyQueries queries of the secondary provider
MaxPerCategory == 1
MaxTavilyQueries == 1

Take(s, n) == SubSeq(s, 1, IF Len(s) < n THEN Len(s) ELSE n)

CategoryQueries(category) ==
    IF category \in DOMAIN SEARCH_QUERIES
    THEN Take(SEARCH_QUERIES[category], MaxPerCategory)
    ELSE <<>>

TavilyQueries == Take(tavily_queries, MaxTavilyQueries)

RECURSIVE ExtendAll(_)
ExtendAll(cats) ==
    IF cats = <<>> THEN <<>> ELSE CategoryQueries(Head(cats)) \o ExtendAll(Tail(cats))

\* queries_to_run: the custom query as channel "manual", then the queries of
\* the requested categories (all three by default)
BuildQueries(custom, cats) ==
    (IF custom # None THEN << <<custom[1], "manual">> >> ELSE <<>>)
        \o ExtendAll(IF cats = None THEN <<"platforms", "news", "distress">>
                     ELSE cats[1])

(***************************************************************************)
(* Property (app/models.py): the fields of a lead the pipeline reads or    *)
(* writes.  NewProperty is the model's defaults.                           *)
(***************************************************************************)
NewProperty(url) ==
    [id |-> None, url |-> url, price |-> None, status |-> "New", score |-> Some(0),
     acreage |-> None, bed_count |-> None, ai_summary |-> None,
     funnel_stage |-> Some("discovered"), is_new |-> TRUE,
     verification_result |-> None, verification_reason |-> None,
     last_verified_at |-> None, source_type |-> None,
     discovered_via |-> None, search_query |-> None, dismissed_reason |-> None]

(***************************************************************************)
(* ScoutAgent: one query.  A hit carries its URL (Absent: the result has   *)
(* none) and whether its other fields let the record be built.             *)
(***************************************************************************)
\* the Property find_candidates builds for a hit of the primary provider
ExaLead(hit, query, via) ==
    [NewProperty(hit.url) EXCEPT
        !.score = Some(50),
        !.source_type = Some(determine_source_type(hit.url, via)),
        !.discovered_via = Some(via),
        !.search_query = Some(query)]

\* the Property _search_tavily builds; a result without url has url ''
TavilyLead(hit, query) ==
    [NewProperty(IF hit.url = Absent THEN <<>> ELSE hit.url) EXCEPT
        !.score = Some(50),
        !.source_type = Some("news"),
        !.discovered_via = Some("tavily_news"),
        !.search_query = Some(query)]

\* (mutant) the hit is not looked up in the known-URL set
IsDuplicateSeenOnly(normalized, existing, seen) == normalized \in seen

\* normalized_url in existing_urls or normalized_url in seen_urls
IsDuplicate(normalized, existing, seen) ==
    normalized \in existing \/ normalized \in seen

\* the loop over the results of one query: the leads and the seen set when it
\* ends, and the exception that ended it (None: it ran to the end).  A
\* result of the primary provider without url raises before the seen set is
\* touched; a result whose record cannot be built raises after.
RECURSIVE ProcessResults(_, _, _, _, _, _, _)
ProcessResults(provider, hits, query, via, existing, found, seen) ==
    IF hits = <<>> THEN [found |-> found, seen |-> seen, exc |-> None]
    ELSE LET hit == Head(hits)
         IN  IF provider = "exa" /\ hit.url = Absent
             THEN [found |-> found, seen |-> seen, exc |-> Some("AttributeError")]
             ELSE
             LET lead == IF provider = "exa" THEN ExaLead(hit, query, via)
                         ELSE TavilyLead(hit, query)
                 normalized == normalize_url(lead.url)
             IN  IF IsDuplicate(normalized, existing, seen)
                 THEN ProcessResults(provider, Tail(hits), query, via, existing,
                                     found, seen)
                 ELSE IF ~hit.valid
                 THEN [found |-> found, seen |-> seen \cup {normalized},
                       exc |-> Some("ValidationError")]
                 ELSE ProcessResults(provider, Tail(hits), query, via, existing,
                                     Append(found, lead), seen \cup {normalized})

\* the try block of one query: the search call, then the loop
RunQuery(provider, outcome, query, via, existing, found, seen) ==
    IF outcome.kind = "raise"
    THEN [found |-> found, seen |-> seen, exc |-> Some(outcome.detail)]
    ELSE ProcessResults(provider, outcome.hits, query, via, existing, found, seen)

\* (mutant) only the failure of the search call is caught
QueryCatchesSearchOnly(exc) == exc \notin {"AttributeError", "ValidationError"}

\* except Exception around each query: logged, the loop continues
QueryCatches(exc) == TRUE

(***************************************************************************)
(* AnalystSpec: inputs.  A lead reaches the agent fresh from discovery or  *)
(* as a persisted row that is verified again (verify_single_property).     *)
(***************************************************************************)
\* find_candidates builds a lead in stage discovered, score 50, without stats
FreshLead ==
    [NewProperty(<<"x">>) EXCEPT !.score = Some(50), !.source_type = Some("news"),
                                 !.discovered_via = Some("exa_news")]

\* a row of the store, as get_property reads it back
PersistedLead ==
    [FreshLead EXCEPT !.id = Some(1), !.price = Some("$1M"), !.score = Some(70),
                      !.ai_summary = Some("old summary"),
                      !.verification_result = Some("available"),
                      !.verification_reason = Some("old reason"),
                      !.last_verified_at = Some(0)]

AnalystLeads ==
    {[FreshLead EXCEPT !.price = p] : p \in {None, Some("$1M")}}
    \cup
    {[PersistedLead EXCEPT !.funnel_stage = Some(stage), !.bed_count = beds,
                           !.acreage = acres] :
        stage \in {"qualified", "dismissed"},
        beds \in {None, Some(0), Some(40)},
        acres \in {None, Some(0), Some(12)}}

\* what the HEAD probe can answer (redirects are followed)
Probes ==
    {[kind |-> "status", code |-> c] : c \in {200, 204, 404, 500}}
        \cup {[kind |-> "error", detail |-> "timeout"]}

\* verdicts of the classification call: every availability, classification
\* and reason without extracted stats, and every combination of extracted
\* stats on an available listing
VerdictOf(a, c, r, p, b, ac) ==
    MkObject([is_available |-> a, classification |-> c, reason |-> r,
              extracted_price |-> p, extracted_beds |-> b, extracted_acreage |-> ac])

VerifyVerdicts ==
    {VerdictOf(a, c, r, None, None, None) :
        a \in {Absent, Some(TRUE), Some(FALSE)},
        c \in {Absent, None, Some("qualified"), Some("interesting"),
               Some("dismissed"), Some("maybe")},
        r \in {Absent, Some("because")}}
    \cup
    {VerdictOf(Some(TRUE), c, Some("because"), p, b, ac) :
        c \in {Absent, Some("qualified")},
        p \in {Absent, None, Some("$2M")},
        b \in {None, Some(0), Some(60)},
        ac \in {None, Some(0), Some(5)}}

AnalyzeVerdicts ==
    {MkObject([score |-> s, ai_summary |-> a, inferred_beds |-> b,
               inferred_acreage |-> ac]) :
        s \in {Absent, None, Some(80)},
        a \in {Absent, Some("new summary")},
        b \in {Absent, Some(0), Some(60)},
        ac \in {None, Some(0), Some(7)}}

\* replies that hold no decodable object: no text at all, prose only, a
\* closing brace before the only opening one, an unclosed brace, braces
\* around something that is not JSON
BrokenTexts ==
    {<<>>, <<Prose>>, <<RBrace, Prose, LBrace>>, <<LBrace, Prose>>,
     <<LBrace, Prose, RBrace>>, <<LBrace, LBrace, RBrace>>}

\* a reply of the LLM: the call fails, or it returns text
Replies(verdicts) ==
    {[kind |-> "raise", detail |-> "llm unavailable"]}
        \cup {[kind |-> "text", text |-> t] : t \in BrokenTexts}
        \cup {[kind |-> "text", text |-> <<LBrace, RBrace>>]}
        \cup {[kind |-> "text", text |-> <<Prose, LBrace, Members(v), RBrace, Prose>>] :
                 v \in verdicts}
        \cup {[kind |-> "text",
               text |-> <<LBrace, Members(v), RBrace, Prose, LBrace, Members(v), RBrace>>] :
                 v \in {w \in verdicts : DOMAIN w = {}}}

\* how a reply went, as the agent's parsing finds it (recorded for the
\* properties; the agent itself uses re_search and json_loads)
ReplyOutcome(llm) ==
    IF llm.kind = "raise" THEN [kind |-> "raise"]
    ELSE LET match == re_search(llm.text)
         IN  IF match = None THEN [kind |-> "no_span"]
             ELSE IF json_loads(match[1]).ok
             THEN [kind |-> "json", data |-> json_loads(match[1]).data]
             ELSE [kind |-> "bad_json"]

NoCall == [kind |-> "none"]

VerifyReplies == Replies(VerifyVerdicts)
AnalyzeReplies == Replies(AnalyzeVerdicts)

(***************************************************************************)
(* Each specification leaves the other engines at rest.                    *)
(***************************************************************************)
AnalystIdle ==
    /\ prop = None
    /\ a_pc = "idle"
    /\ a_last = None
    /\ calls = <<>>
    /\ clock = 1

ScoutIdle ==
    /\ existing_urls = {}
    /\ custom_query = None
    /\ categories = None
    /\ queries_to_run = <<>>
    /\ found_properties = <<>>
    /\ seen_urls = {}
    /\ s_pc = "idle"
    /\ s_qi = 1
    /\ s_log = [issued |-> <<>>, served |-> 0, failed |-> FALSE,
                first |-> {}, several |-> {}, clean |-> {}]
    /\ s_replay = [round |-> 0, outcomes |-> <<>>, first |-> <<>>]

\* no helper call is being looked at
FnIdle == [op |-> "none"]

\* the requests a store specification interleaves
Procs == {1, 2}

\* solo records whether every other request was idle or done when this one
\* read the known URLs
IdleRuns ==
    [p \in Procs |-> [pc |-> "idle", known |-> {}, batch |-> <<>>, solo |-> TRUE]]

RequestsIdle ==
    /\ runs = IdleRuns
    /\ db_key = FALSE
    /\ store = <<>>
    /\ should_verify = TRUE
    /\ properties = <<>>
    /\ verified_properties = <<>>
    /\ r_pc = "idle"
    /\ r_log = [discovered |-> <<>>, handed |-> <<>>, raised |-> {},
                upsert |-> "none"]

\* no request is being served and no helper call is being looked at
RunIdle == RequestsIdle /\ fn = FnIdle

(***************************************************************************)
(* AnalystSpec: verify_and_analyze on one lead, one awaited call per step. *)
(***************************************************************************)
AnalystInit ==
    /\ exa_key = TRUE /\ tavily_key = TRUE
    /\ gemini_key \in BOOLEAN
    /\ prop \in AnalystLeads
    /\ a_pc = "start"
    /\ a_last = [op |-> "none", input |-> prop, pre |-> prop, probe |-> NoCall,
                 reply |-> NoCall]
    /\ calls = <<>>
    /\ clock = 1
    /\ ScoutIdle
    /\ RunIdle

\* the state after verify_property has run with this probe and this reply
VerifyStep(probe, llm) ==
    LET r == verify_property(prop, gemini_key, probe, llm, clock)
    IN  /\ prop' = r.prop
        /\ calls' = calls \o r.calls
        /\ a_last' = [op |-> "verify_property", input |-> prop, pre |-> prop,
                      probe |-> IF Len(r.calls) >= 1 THEN probe ELSE NoCall,
                      reply |-> IF Len(r.calls) >= 2 THEN ReplyOutcome(llm)
                                ELSE NoCall]

\* prop = await self.verify_property(prop); a probe and a reply are drawn
\* only where the agent asks for one
A_VerifyProperty ==
    /\ a_pc = "start"
    /\ LET unused == [kind |-> "raise", detail |-> "not called"]
       IN  IF ~gemini_key
           THEN VerifyStep([kind |-> "error", detail |-> "not probed"], unused)
           ELSE \E probe \in Probes :
                   IF verify_url(probe).ok
                   THEN \E llm \in VerifyReplies : VerifyStep(probe, llm)
                   ELSE VerifyStep(probe, unused)
    /\ a_pc' = "verified"
    /\ clock' = clock + 1
    /\ UNCHANGED <<config_vars, scout_vars, run_vars>>

\* if prop.funnel_stage in ['qualified', 'interesting']:
\*     prop = await self.analyze_property(prop)
A_AnalyzeProperty ==
    /\ a_pc = "verified"
    /\ ShouldAnalyze(prop)
    /\ \E llm \in AnalyzeReplies :
         LET r == analyze_property(prop, gemini_key, llm)
         IN  /\ prop' = r.prop
             /\ calls' = calls \o r.calls
             /\ a_last' = [a_last EXCEPT
                           !.op = "analyze_property", !.pre = prop,
                           !.reply = IF Len(r.calls) >= 1 THEN ReplyOutcome(llm)
                                     ELSE NoCall]
             /\ a_pc' = IF r.raised = None THEN "done" ELSE "raised"
    /\ UNCHANGED <<clock, config_vars, scout_vars, run_vars>>

\* the lead is neither qualified nor interesting: returned as verified
A_SkipAnalyze ==
    /\ a_pc = "verified"
    /\ ~ShouldAnalyze(prop)
    /\ a_pc' = "done"
    /\ a_last' = [a_last EXCEPT !.op = "skip_analyze", !.pre = prop,
                                !.reply = NoCall]
    /\ UNCHANGED <<prop, calls, clock, config_vars, scout_vars, run_vars>>

AnalystNext == A_VerifyProperty \/ A_AnalyzeProperty \/ A_SkipAnalyze

AnalystSpec == AnalystInit /\ [][AnalystNext]_vars

(***************************************************************************)
(* PropertyDatabase (app/database.py): the table is a sequence of rows in  *)
(* insertion order, a row's id is assigned on insertion, url is the        *)
(* conflict key of upsert.                                                 *)
(***************************************************************************)
\* fields model_dump(exclude_none=True) always sends: they are never None
PlainFields == {"url", "status", "is_new"}

\* get_all_urls: the stored url of every row, as stored
get_all_urls(available, table) ==
    IF ~available THEN {}
    ELSE {table[i].url : i \in {j \in DOMAIN table : table[j].url # <<>>}}

\* ON CONFLICT (url) DO UPDATE: the columns the payload carries replace the
\* row's, the columns it leaves out (None in the lead) keep their value
MergeRow(old, p) ==
    [f \in DOMAIN old |->
        IF f \in PlainFields THEN p[f]
        ELSE IF p[f] = None THEN old[f] ELSE p[f]]

\* (mutant) the insert ignores the conflict key
UpsertRowInsertOnly(table, p) ==
    LET row == [p EXCEPT !.id = Some(Len(table) + 1)]
    IN  [table |-> Append(table, row), row |-> row]

\* upsert of one lead: the table afterwards and the row it returns
UpsertRow(table, p) ==
    LET same == {i \in DOMAIN table : table[i].url = p.url}
    IN  IF same = {}
        THEN LET row == IF p.id = None
                        THEN [p EXCEPT !.id = Some(Len(table) + 1)] ELSE p
             IN  [table |-> Append(table, row), row |-> row]
        ELSE LET i == CHOOSE j \in same : TRUE
                 row == MergeRow(table[i], p)
             IN  [table |-> [table EXCEPT ![i] = row], row |-> row]

\* the bulk upsert: one returned row for every lead of the batch
RECURSIVE UpsertAll(_, _)
UpsertAll(table, props) ==
    IF props = <<>> THEN [table |-> table, rows |-> <<>>]
    ELSE LET u == UpsertRow(table, Head(props))
             rest == UpsertAll(u.table, Tail(props))
         IN  [table |-> rest.table, rows |-> <<u.row>> \o rest.rows]

\* upsert_properties: what the caller gets back, the table afterwards and
\* how the call went.  The request can fail before the store applied it, and
\* the call can fail after it did (building the returned Property objects)
upsert_properties(available, table, props, outcome) ==
    IF ~available
    THEN [properties |-> Some(props), table |-> table, how |-> "unavailable"]
    ELSE IF outcome = "ok"
    THEN [properties |-> Some(UpsertAll(table, props).rows),
          table |-> UpsertAll(table, props).table, how |-> "ok"]
    ELSE [properties |-> None,
          table |-> IF outcome = "raise_after" THEN UpsertAll(table, props).table
                    ELSE table,
          how |-> "raised"]

UpsertOutcomes == {"ok", "raise_before", "raise_after"}

(***************************************************************************)
(* ScoutSpec: one call of find_candidates, one search query per step.      *)
(***************************************************************************)
\* the providers return at most MaxResults results in one find_candidates
\* call and at most MaxPerResponse in one response (num_results=5,
\* max_results=5 in the code)
MaxResults == 3
MaxPerResponse == 2

CampusUrl == <<"loopnet", "/", "123">>
StoryUrl == <<"times", "/", "story">>

\* known-URL sets: stored URLs in normalized and in original form
KnownSets == {{}, {CampusUrl}, {CampusUrl \o <<"?", "ref">>, StoryUrl}}

CustomQueries == {None, Some("old monastery for sale")}
CategoryInputs == {None, Some(<<"distress", "lakes">>)}

\* results: one listing under three spellings of its URL (one of them in a
\* result whose record cannot be built) and a news story
Hits ==
    {[url |-> CampusUrl, valid |-> TRUE],
     [url |-> CampusUrl \o <<"?", "ref">>, valid |-> TRUE],
     [url |-> CampusUrl \o <<"/">>, valid |-> FALSE],
     [url |-> StoryUrl \o <<"#", "top">>, valid |-> TRUE]}

\* what a search call can do when the providers have n results left to
\* return: raise, or return up to n results, MaxPerResponse at most
SearchOutcomes ==
    [n \in 0..MaxResults |->
        {[kind |-> "raise", detail |-> "provider error"]}
            \cup {[kind |-> "results", hits |-> h] :
                     h \in UNION {[1..k -> Hits] :
                                     k \in 0..(IF n < MaxPerResponse THEN n
                                               ELSE MaxPerResponse)}}]

ScoutInit ==
    /\ exa_key \in BOOLEAN /\ tavily_key \in BOOLEAN
    /\ gemini_key = TRUE
    /\ AnalystIdle
    /\ ScoutIdle
    /\ RunIdle

\* what the provider answers to the next query: anything within what it has
\* left, or in a replayed call what it answered the first time
OutcomesNow ==
    IF s_replay.round = 2 THEN {s_replay.outcomes[Len(s_log.issued) + 1]}
    ELSE SearchOutcomes[MaxResults - s_log.served]

\* the known URLs of a call: any of KnownSets, or when the call is to be
\* repeated on its own output, what get_all_urls reads from the empty table
KnownNow ==
    IF s_replay.round = 1 THEN {get_all_urls(TRUE, <<>>)} ELSE KnownSets

\* find_candidates is called: without the primary credential it returns the
\* empty list, otherwise it builds queries_to_run
S_Call ==
    /\ s_pc = "idle"
    /\ \E known \in KnownNow, custom \in CustomQueries, cats \in CategoryInputs :
         /\ existing_urls' = known
         /\ custom_query' = custom
         /\ categories' = cats
         /\ queries_to_run' = IF exa_key THEN BuildQueries(custom, cats) ELSE <<>>
    /\ s_pc' = IF exa_key THEN "exa" ELSE "returned"
    /\ UNCHANGED <<found_properties, seen_urls, s_qi, s_log, s_replay,
                   config_vars, analyst_vars, run_vars>>

\* the normalized URLs of the results a search call returned
ReturnedKeys(provider, outcome) ==
    IF outcome.kind = "raise" THEN {}
    ELSE {normalize_url(IF outcome.hits[i].url = Absent THEN <<>>
                        ELSE outcome.hits[i].url) :
             i \in {i \in DOMAIN outcome.hits :
                       provider = "exa" => outcome.hits[i].url # Absent}}

\* one query of a provider, its try block and its except clause.  s_log
\* keeps, next to the calls issued: for every normalized URL the first query
\* that returned it, the normalized URLs several queries returned, and the
\* normalized URLs returned by queries that ran to their end
QueryStep(provider, query, via, outcome, next_pc) ==
    LET r == RunQuery(provider, outcome, query, via, existing_urls,
                      found_properties, seen_urls)
        propagates == r.exc # None /\ ~QueryCatches(r.exc[1])
        keys == ReturnedKeys(provider, outcome)
    IN  /\ found_properties' = r.found
        /\ seen_urls' = r.seen
        /\ s_log' = [issued |-> Append(s_log.issued, <<provider, query>>),
                     served |-> s_log.served
                                  + (IF outcome.kind = "raise" THEN 0
                                     ELSE Len(outcome.hits)),
                     failed |-> s_log.failed \/ r.exc # None,
                     first |-> s_log.first
                                 \cup {<<key, Len(s_log.issued) + 1>> :
                                          key \in {x \in keys :
                                                     \A f \in s_log.first : f[1] # x}},
                     several |-> s_log.several
                                   \cup {x \in keys : \E f \in s_log.first : f[1] = x},
                     clean |-> s_log.clean
                                 \cup (IF r.exc = None THEN keys ELSE {})]
        /\ s_replay' = IF s_replay.round = 1
                       THEN [s_replay EXCEPT !.outcomes = Append(@, outcome)]
                       ELSE s_replay
        /\ s_pc' = IF propagates THEN "raised" ELSE next_pc
        /\ s_qi' = s_qi + 1

\* for query, discovered_via in queries_to_run: ... self.exa.search(...)
S_ExaQuery ==
    /\ s_pc = "exa"
    /\ s_qi <= Len(queries_to_run)
    /\ \E outcome \in OutcomesNow :
         QueryStep("exa", queries_to_run[s_qi][1], queries_to_run[s_qi][2],
                   outcome, "exa")
    /\ UNCHANGED <<existing_urls, custom_query, categories, queries_to_run,
                   config_vars, analyst_vars, run_vars>>

\* if self.tavily and not custom_query: await self._search_tavily(...)
S_ExaDone ==
    /\ s_pc = "exa"
    /\ s_qi > Len(queries_to_run)
    /\ s_pc' = IF tavily_key /\ custom_query = None THEN "tavily" ELSE "returned"
    /\ s_qi' = 1
    /\ UNCHANGED <<existing_urls, custom_query, categories, queries_to_run,
                   found_properties, seen_urls, s_log, s_replay, config_vars,
                   analyst_vars, run_vars>>

\* for query in tavily_queries: ... self.tavily.search(...)
S_TavilyQuery ==
    /\ s_pc = "tavily"
    /\ s_qi <= Len(TavilyQueries)
    /\ \E outcome \in OutcomesNow :
         QueryStep("tavily", TavilyQueries[s_qi], "tavily_news", outcome, "tavily")
    /\ UNCHANGED <<existing_urls, custom_query, categories, queries_to_run,
                   config_vars, analyst_vars, run_vars>>

\* return found_properties
S_TavilyDone ==
    /\ s_pc = "tavily"
    /\ s_qi > Len(TavilyQueries)
    /\ s_pc' = "returned"
    /\ UNCHANGED <<existing_urls, custom_query, categories, queries_to_run,
                   found_properties, seen_urls, s_qi, s_log, s_replay,
                   config_vars, analyst_vars, run_vars>>

ScoutNext == S_Call \/ S_ExaQuery \/ S_ExaDone \/ S_TavilyQuery \/ S_TavilyDone

ScoutSpec == ScoutInit /\ [][ScoutNext]_vars

(***************************************************************************)
(* RerunSpec: find_candidates is called, what it returns is stored in an   *)
(* empty table, and find_candidates is called again with the same request, *)
(* the URLs get_all_urls reads from that table, and providers that answer  *)
(* every query as they did the first time.                                 *)
(***************************************************************************)
RerunInit ==
    /\ exa_key \in BOOLEAN /\ tavily_key \in BOOLEAN
    /\ gemini_key = TRUE
    /\ AnalystIdle
    /\ existing_urls = {}
    /\ custom_query = None
    /\ categories = None
    /\ queries_to_run = <<>>
    /\ found_properties = <<>>
    /\ seen_urls = {}
    /\ s_pc = "idle"
    /\ s_qi = 1
    /\ s_log = [issued |-> <<>>, served |-> 0, failed |-> FALSE,
                first |-> {}, several |-> {}, clean |-> {}]
    /\ s_replay = [round |-> 1, outcomes |-> <<>>, first |-> <<>>]
    /\ RunIdle

\* the first call has returned: its leads are upserted, the known URLs are
\* read back, and find_candidates is called again
S_Rerun ==
    /\ s_pc = "returned"
    /\ s_replay.round = 1
    /\ existing_urls' = get_all_urls(TRUE, UpsertAll(<<>>, found_properties).table)
    /\ s_replay' = [s_replay EXCEPT !.round = 2, !.first = found_properties]
    /\ found_properties' = <<>>
    /\ seen_urls' = {}
    /\ s_qi' = 1
    /\ s_log' = [issued |-> <<>>, served |-> 0, failed |-> FALSE,
                first |-> {}, several |-> {}, clean |-> {}]
    /\ s_pc' = IF exa_key THEN "exa" ELSE "returned"
    /\ UNCHANGED <<custom_query, categories, queries_to_run, config_vars,
                   analyst_vars, run_vars>>

RerunNext ==
    S_Call \/ S_ExaQuery \/ S_ExaDone \/ S_TavilyQuery \/ S_TavilyDone \/ S_Rerun

RerunSpec == RerunInit /\ [][RerunNext]_vars

(***************************************************************************)
(* Spec: run_scout (app/main.py).  The known URLs are read from the store, *)
(* find_candidates runs query by query (the actions of ScoutSpec), every   *)
(* lead is handed to verify_and_analyze, and the batch is upserted.        *)
(***************************************************************************)
\* rows the table can hold before the run: none, or a listing a person
\* dismissed, stored under the URL the provider returned it with
StoredRow ==
    [NewProperty(CampusUrl \o <<"?", "ref">>) EXCEPT
        !.id = Some(1), !.score = Some(50), !.source_type = Some("listing"),
        !.discovered_via = Some("exa_loopnet"),
        !.search_query = Some("site:loopnet.com college campus for sale"),
        !.funnel_stage = Some("dismissed"), !.is_new = FALSE,
        !.dismissed_reason = Some("too small")]

InitialStores == {<<>>, <<StoredRow>>}

\* the request body: query, categories, verify
VerifyInputs == BOOLEAN

\* what the outside world does while one lead is verified and analyzed: the
\* probe's answer, the two replies of the LLM, and whether an exception that
\* the agent does not handle leaves verify_property or analyze_property
QualifiedReply ==
    [kind |-> "text",
     text |-> <<LBrace,
                Members(VerdictOf(Some(TRUE), Some("qualified"), Some("because"),
                                  None, Some(60), None)),
                RBrace>>]

ScoreReply ==
    [kind |-> "text",
     text |-> <<LBrace,
                Members(MkObject([score |-> Some(80),
                                  ai_summary |-> Some("new summary"),
                                  inferred_beds |-> Absent,
                                  inferred_acreage |-> None])),
                RBrace>>]

VerifyEnvs ==
    {[probe |-> [kind |-> "status", code |-> 200], verify_reply |-> QualifiedReply,
      analyze_reply |-> ScoreReply, fault |-> f] : f \in {"none", "analyze"}}
    \cup
    {[probe |-> [kind |-> "status", code |-> 404], verify_reply |-> QualifiedReply,
      analyze_reply |-> ScoreReply, fault |-> "none"]}

\* verify_and_analyze: the lead as the agent leaves it (the agent updates the
\* caller's object in place) and whether an exception leaves the call
verify_and_analyze(p, model, env, now) ==
    IF env.fault = "verify" THEN [prop |-> p, raised |-> TRUE]
    ELSE LET v == verify_property(p, model, env.probe, env.verify_reply, now).prop
         IN  IF ~ShouldAnalyze(v) THEN [prop |-> v, raised |-> FALSE]
             ELSE IF env.fault = "analyze" THEN [prop |-> v, raised |-> TRUE]
             ELSE LET a == analyze_property(v, model, env.analyze_reply)
                  IN  [prop |-> a.prop, raised |-> a.raised # None]

\* (mutant) a lead whose verification raises is left out of the batch
VerifiedItemDropsFailed(r) == IF r.raised THEN <<>> ELSE <<r.prop>>

\* the body of the verification loop: what is appended to
\* verified_properties for one lead
VerifiedItem(r) ==
    IF r.raised THEN <<[r.prop EXCEPT !.funnel_stage = Some("interesting")]>>
    ELSE <<r.prop>>

Init ==
    /\ exa_key \in BOOLEAN /\ tavily_key \in BOOLEAN /\ gemini_key \in BOOLEAN
    /\ AnalystIdle
    /\ ScoutIdle
    /\ db_key \in BOOLEAN
    \* without credentials of the store there is no table to look at
    /\ store \in IF db_key THEN InitialStores ELSE {<<>>}
    /\ should_verify = TRUE
    /\ properties = <<>>
    /\ verified_properties = <<>>
    /\ r_pc = "idle"
    /\ r_log = [discovered |-> <<>>, handed |-> <<>>, raised |-> {},
                upsert |-> "none"]
    /\ runs = IdleRuns
    /\ fn = FnIdle

\* existing_urls = await property_db.get_all_urls(); the request is parsed;
\* find_candidates is called
R_Start ==
    /\ r_pc = "idle"
    /\ \E custom \in CustomQueries, cats \in CategoryInputs :
         /\ custom_query' = custom
         /\ categories' = cats
         /\ queries_to_run' = IF exa_key THEN BuildQueries(custom, cats) ELSE <<>>
    /\ existing_urls' = get_all_urls(db_key, store)
    /\ s_pc' = IF exa_key THEN "exa" ELSE "returned"
    /\ r_pc' = "discovering"
    /\ UNCHANGED <<runs, fn, found_properties, seen_urls, s_qi, s_log, s_replay, db_key,
                   store, should_verify, properties, verified_properties, r_log,
                   config_vars, analyst_vars>>

\* find_candidates has returned: if not properties: return; otherwise the
\* batch goes to verification or straight to the store.  The request's
\* verify flag is drawn here, where run_scout first looks at it
R_Discovered ==
    /\ r_pc = "discovering"
    /\ s_pc = "returned"
    /\ properties' = found_properties
    /\ r_log' = [r_log EXCEPT !.discovered = found_properties]
    /\ \E verify \in VerifyInputs :
         /\ should_verify' = verify
         /\ r_pc' = IF found_properties = <<>> THEN "returned"
                    ELSE IF verify THEN "verifying" ELSE "saving"
    \* the arguments and locals of find_candidates are gone with its frame
    /\ existing_urls' = {}
    /\ custom_query' = None
    /\ categories' = None
    /\ queries_to_run' = <<>>
    /\ found_properties' = <<>>
    /\ seen_urls' = {}
    /\ s_pc' = "idle"
    /\ s_qi' = 1
    /\ s_log' = [issued |-> <<>>, served |-> 0, failed |-> FALSE,
                first |-> {}, several |-> {}, clean |-> {}]
    /\ UNCHANGED <<runs, fn, s_replay, db_key, store, verified_properties, config_vars,
                   analyst_vars>>

\* one pass of for prop in properties: try verify_and_analyze, except
\* default to interesting; after the last lead properties = verified_properties
R_VerifyOne ==
    /\ r_pc = "verifying"
    /\ LET i == Len(r_log.handed) + 1
       IN  \E env \in VerifyEnvs :
             LET r == verify_and_analyze(properties[i], gemini_key, env, clock)
                 verified == verified_properties \o VerifiedItem(r)
             IN  /\ verified_properties' = verified
                 /\ r_log' = [r_log EXCEPT
                                !.handed = Append(@, i),
                                !.raised = IF r.raised THEN @ \cup {i} ELSE @]
                 /\ IF i = Len(properties)
                    THEN properties' = verified /\ r_pc' = "saving"
                    ELSE UNCHANGED <<properties, r_pc>>
    /\ clock' = clock + 1
    /\ UNCHANGED <<runs, fn, db_key, store, should_verify, config_vars, prop, a_pc, a_last,
                   calls, scout_vars>>

\* if property_db.is_available(): try upsert_properties, except log;
\* return SearchResult(properties=properties)
R_Save ==
    /\ r_pc = "saving"
    /\ \E outcome \in UpsertOutcomes :
         LET u == upsert_properties(db_key, store, properties, outcome)
         IN  /\ store' = u.table
             /\ properties' = IF u.properties = None THEN properties
                              ELSE u.properties[1]
             /\ r_log' = [r_log EXCEPT !.upsert = u.how]
    /\ r_pc' = "returned"
    /\ UNCHANGED <<runs, fn, db_key, should_verify, verified_properties, config_vars,
                   analyst_vars, scout_vars>>

Next ==
    \/ R_Start
    \/ S_ExaQuery
    \/ S_ExaDone
    \/ S_TavilyQuery
    \/ S_TavilyDone
    \/ R_Discovered
    \/ R_VerifyOne
    \/ R_Save

Spec == Init /\ [][Next]_vars

(***************************************************************************)
(* find_candidates as one function of what the providers answer, for the   *)
(* specifications that do not step through its queries.                    *)
(***************************************************************************)
\* the query loop of one provider over queries (<<query, channel>> pairs)
\* and the outcome of each search call; an exception the except clause does
\* not catch ends the loop
RECURSIVE RunQueries(_, _, _, _, _, _)
RunQueries(provider, queries, outcomes, existing, found, seen) ==
    IF queries = <<>> THEN [found |-> found, seen |-> seen, exc |-> None]
    ELSE LET q == Head(queries)
             r == RunQuery(provider, Head(outcomes), q[1], q[2], existing,
                           found, seen)
         IN  IF r.exc # None /\ ~QueryCatches(r.exc[1])
             THEN r
             ELSE RunQueries(provider, Tail(queries), Tail(outcomes), existing,
                             r.found, r.seen)

\* the queries of the secondary provider, as <<query, channel>> pairs
TavilyPairs == [i \in 1..Len(TavilyQueries) |-> <<TavilyQueries[i], "tavily_news">>]

\* how many search calls a request issues
QueriesIssued(exa, tavily, custom, cats) ==
    IF ~exa THEN 0
    ELSE Len(BuildQueries(custom, cats))
           + (IF tavily /\ custom = None THEN Len(TavilyPairs) ELSE 0)

\* find_candidates: outcomes holds the outcome of every search call, in the
\* order the calls are issued
find_candidates(exa, tavily, existing, custom, cats, outcomes) ==
    IF ~exa THEN [found |-> <<>>, seen |-> {}, exc |-> None]
    ELSE LET qs == BuildQueries(custom, cats)
             e == RunQueries("exa", qs, SubSeq(outcomes, 1, Len(qs)), existing,
                             <<>>, {})
         IN  IF e.exc # None \/ ~(tavily /\ custom = None) THEN e
             ELSE RunQueries("tavily", TavilyPairs,
                             SubSeq(outcomes, Len(qs) + 1, Len(outcomes)),
                             existing, e.found, e.seen)

(***************************************************************************)
(* The endpoints that write one row (app/main.py, app/database.py).        *)
(***************************************************************************)
\* dismiss_property: update ... where id = property_id
dismiss_property(table, id, reason) ==
    [i \in DOMAIN table |->
        IF table[i].id = id
        THEN [table[i] EXCEPT !.funnel_stage = Some("dismissed"),
                              !.dismissed_reason = Some(reason),
                              !.status = "Archived"]
        ELSE table[i]]

\* verify_single_property: get_property, verify_and_analyze, upsert_property;
\* an exception of the agent leaves the table as it was
verify_single_property(table, i, model, env, now) ==
    LET r == verify_and_analyze(table[i], model, env, now)
    IN  IF r.raised THEN table ELSE UpsertRow(table, r.prop).table

(***************************************************************************)
(* StoreSpec: two run_scout requests against one store, each suspended     *)
(* between its awaits (get_all_urls, find_candidates, the verification     *)
(* loop, upsert_properties), interleaved with each other and with the      *)
(* dismiss and re-verify endpoints.  The requests name the distress        *)
(* category and verify their batch; only the primary provider is           *)
(* configured; one search call of a request is answered with results, all  *)
(* of them well-formed spellings of one listing's URL; the agent raises    *)
(* nothing.                                                                *)
(***************************************************************************)
StoreCategories == Some(<<"distress">>)

\* what the providers answer to the n search calls of one request
StoreWorlds(n) ==
    {[i \in 1..n |-> IF i = k THEN o ELSE [kind |-> "results", hits |-> <<>>]] :
        k \in 1..n,
        o \in {x \in SearchOutcomes[MaxPerResponse] :
                  /\ x.kind = "results"
                  /\ \A h \in DOMAIN x.hits :
                        /\ x.hits[h].valid
                        /\ normalize_url(x.hits[h].url) = CampusUrl}}

StoreVerifyEnvs == {e \in VerifyEnvs : e.fault = "none"}

\* the verification loop of run_scout over a batch, envs[i] for lead i
VerifyBatch(batch, model, envs, now) ==
    [i \in DOMAIN batch |->
        VerifiedItem(verify_and_analyze(batch[i], model, envs[i], now))[1]]

StoreInit ==
    /\ exa_key = TRUE /\ tavily_key = FALSE /\ gemini_key = TRUE
    /\ AnalystIdle
    /\ ScoutIdle
    /\ db_key = TRUE
    /\ store = <<>>
    /\ should_verify = TRUE
    /\ properties = <<>>
    /\ verified_properties = <<>>
    /\ r_pc = "idle"
    /\ r_log = [discovered |-> <<>>, handed |-> <<>>, raised |-> {},
                upsert |-> "none"]
    /\ runs = IdleRuns
    /\ fn = FnIdle

StoreFrame ==
    UNCHANGED <<config_vars, analyst_vars, scout_vars, db_key, should_verify,
                properties, verified_properties, r_pc, r_log, fn>>

\* existing_urls = await property_db.get_all_urls()
T_Read(p) ==
    /\ runs[p].pc = "idle"
    /\ runs' = [runs EXCEPT ![p] =
                   [@ EXCEPT !.pc = "discover",
                             !.known = get_all_urls(db_key, store),
                             !.solo = \A q \in Procs \ {p} :
                                         runs[q].pc \in {"idle", "done"}]]
    /\ UNCHANGED store
    /\ StoreFrame

\* properties = await scout_agent.find_candidates(...); if not properties:
\* return
T_Discover(p) ==
    /\ runs[p].pc = "discover"
    /\ \E w \in StoreWorlds(QueriesIssued(exa_key, tavily_key, None, StoreCategories)) :
         LET r == find_candidates(exa_key, tavily_key, runs[p].known, None,
                                  StoreCategories, w)
         IN  runs' = [runs EXCEPT ![p] =
                        [@ EXCEPT !.batch = r.found,
                                  !.pc = IF r.found = <<>> THEN "done" ELSE "verify"]]
    /\ UNCHANGED store
    /\ StoreFrame

\* if should_verify: the verification loop over the batch
T_Verify(p) ==
    /\ runs[p].pc = "verify"
    /\ \E envs \in [DOMAIN runs[p].batch -> StoreVerifyEnvs] :
         runs' = [runs EXCEPT ![p] =
                    [@ EXCEPT !.pc = "save",
                              !.batch = VerifyBatch(@, gemini_key, envs, clock)]]
    /\ UNCHANGED store
    /\ StoreFrame

\* properties = await property_db.upsert_properties(properties), or the
\* request to the store fails
T_Save(p) ==
    /\ runs[p].pc = "save"
    /\ \E outcome \in {"ok", "raise_before"} :
         LET u == upsert_properties(db_key, store, runs[p].batch, outcome)
         IN  /\ store' = u.table
             /\ runs' = [runs EXCEPT ![p] =
                            [@ EXCEPT !.pc = "done",
                                      !.batch = IF u.properties = None THEN @
                                                ELSE u.properties[1]]]
    /\ StoreFrame

\* POST /api/properties/{id}/dismiss, on a lead that is not yet dismissed
T_Dismiss ==
    /\ \E i \in DOMAIN store :
         /\ store[i].funnel_stage # Some("dismissed")
         /\ store' = dismiss_property(store, store[i].id, "too small")
    /\ UNCHANGED runs
    /\ StoreFrame

\* POST /api/analyst/verify/{id}
T_VerifySingle ==
    /\ \E i \in DOMAIN store, env \in StoreVerifyEnvs :
         store' = verify_single_property(store, i, gemini_key, env, clock)
    /\ UNCHANGED runs
    /\ StoreFrame

StoreNext ==
    \/ \E p \in Procs : T_Read(p)
    \/ \E p \in Procs : T_Discover(p)
    \/ \E p \in Procs : T_Verify(p)
    \/ \E p \in Procs : T_Save(p)
    \/ T_Dismiss
    \/ T_VerifySingle

StoreSpec == StoreInit /\ [][StoreNext]_vars

(***************************************************************************)
(* NormalizeSpec: _normalize_url on two drawn URLs, then on its own result. *)
(***************************************************************************)
MaxUrlLen == 3

\* the characters a URL is drawn from: a word, the path separator, and the
\* two delimiters _normalize_url splits at
UrlTokens == {"x", "/", "?", "#"}

RECURSIVE UrlsOfLen(_)
UrlsOfLen(n) ==
    IF n = 0 THEN {<<>>}
    ELSE {Append(u, t) : u \in UrlsOfLen(n - 1), t \in UrlTokens}

Urls == UNION {UrlsOfLen(n) : n \in 0..MaxUrlLen}

NormalizeInit ==
    /\ exa_key = TRUE /\ tavily_key = FALSE /\ gemini_key = FALSE
    /\ AnalystIdle
    /\ ScoutIdle
    /\ RequestsIdle
    /\ \E a \in Urls, b \in Urls :
          fn = [op |-> "args", a |-> a, b |-> b,
                ra |-> <<>>, rb |-> <<>>, again |-> <<>>]

\* self._normalize_url(a), self._normalize_url(b)
N_Normalize ==
    /\ fn.op = "args"
    /\ fn' = [fn EXCEPT !.op = "normalized",
                        !.ra = normalize_url(fn.a),
                        !.rb = normalize_url(fn.b)]
    /\ UNCHANGED <<config_vars, analyst_vars, scout_vars, db_key, store,
                   should_verify, properties, verified_properties, r_pc,
                   r_log, runs>>

\* self._normalize_url(self._normalize_url(a))
N_Again ==
    /\ fn.op = "normalized"
    /\ fn' = [fn EXCEPT !.op = "renormalized", !.again = normalize_url(fn.ra)]
    /\ UNCHANGED <<config_vars, analyst_vars, scout_vars, db_key, store,
                   should_verify, properties, verified_properties, r_pc,
                   r_log, runs>>

NormalizeNext == N_Normalize \/ N_Again

NormalizeSpec == NormalizeInit /\ [][NormalizeNext]_vars

(***************************************************************************)
(* LocationSpec: _extract_location called twice on one (text, title), in   *)
(* one interpreter process or in two.  A text is a sequence of words       *)
(* joined by single spaces; a word ending in a comma is the word with the  *)
(* comma attached.                                                         *)
(***************************************************************************)
US_STATES ==
    {"AL", "AK", "AZ", "AR", "CA", "CO", "CT", "DE", "FL", "GA", "HI", "ID",
     "IL", "IN", "IA", "KS", "KY", "LA", "ME", "MD", "MA", "MI", "MN", "MS",
     "MO", "MT", "NE", "NV", "NH", "NJ", "NM", "NY", "NC", "ND", "OH", "OK",
     "OR", "PA", "RI", "SC", "SD", "TN", "TX", "UT", "VT", "VA", "WA", "WV",
     "WI", "WY"}

MaxWords == 3
MaxTitleWords == 1

\* [A-Z][a-z]+ followed by a comma, [A-Z][a-z]+ alone, and [A-Z]{2}
CityCommaWords == {"Austin,"}
CityWords == {"Austin"}
TwoCapitals == {"TX", "CA", "FR"}
Words == CityCommaWords \cup CityWords \cup TwoCapitals

RECURSIVE TextsOfLen(_)
TextsOfLen(n) ==
    IF n = 0 THEN {<<>>}
    ELSE {Append(t, w) : t \in TextsOfLen(n - 1), w \in Words}

Texts(max) == UNION {TextsOfLen(n) : n \in 0..max}

\* the orders in which `for state in US_STATES` can visit the state codes
\* the texts contain: US_STATES is a set of str, whose iteration order
\* follows the string hashes the interpreter salts anew in every process
ScanOrders ==
    LET codes == US_STATES \cap Words
        n == Cardinality(codes)
    IN  {o \in [1..n -> codes] : \A i, j \in 1..n : o[i] = o[j] => i = j}

\* re.search(pattern, combined): the leftmost `City, ST`, as the words of
\* group 1 and the code of group 2
CityStateMatch(combined) ==
    LET at == {i \in 1..(Len(combined) - 1) :
                  combined[i] \in CityCommaWords /\ combined[i + 1] \in TwoCapitals}
    IN  IF at = {} THEN None
        ELSE LET i == CHOOSE i \in at : \A j \in at : i <= j
                 city == IF i > 1 /\ combined[i - 1] \in CityWords
                         THEN <<combined[i - 1], combined[i]>>
                         ELSE <<combined[i]>>
             IN  Some([city |-> city, state |-> combined[i + 1]])

\* the state codes with f" {state} " in combined or combined.endswith(f" {state}"),
\* where combined = f"{title} {text}"
StandaloneStates(text, title) ==
    LET combined == title \o text
    IN  {combined[k] : k \in {k \in 1..Len(combined) :
                                 /\ combined[k] \in US_STATES
                                 /\ k > 1 \/ title = <<>>}}

\* _extract_location in a process whose US_STATES iterates in `order`
extract_location(text, title, order) ==
    LET match == CityStateMatch(title \o text)
        alone == StandaloneStates(text, title)
        hits == {i \in 1..Len(order) : order[i] \in alone}
    IN  IF match # None /\ match[1].state \in US_STATES
        THEN match[1].city \o <<match[1].state>>
        ELSE IF hits # {}
        THEN <<order[CHOOSE i \in hits : \A j \in hits : i <= j]>>
        ELSE <<"Location Unknown">>

LocationInit ==
    /\ exa_key = TRUE /\ tavily_key = FALSE /\ gemini_key = FALSE
    /\ AnalystIdle
    /\ ScoutIdle
    /\ RequestsIdle
    /\ \E text \in Texts(MaxWords), title \in Texts(MaxTitleWords) :
          fn = [op |-> "args", text |-> text, title |-> title,
                order |-> <<>>, processes |-> 0, first |-> <<>>, second |-> <<>>]

LocationFrame ==
    UNCHANGED <<config_vars, analyst_vars, scout_vars, db_key, store,
                should_verify, properties, verified_properties, r_pc,
                r_log, runs>>

\* the interpreter starts and the module is loaded: US_STATES is built.
\* Happens before the first call, and between the calls when the service
\* is restarted
L_Load ==
    /\ fn.op \in {"args", "called"}
    /\ \E order \in ScanOrders :
          fn' = [fn EXCEPT !.op = IF fn.op = "args" THEN "loaded" ELSE "reloaded",
                           !.order = order,
                           !.processes = fn.processes + 1]
    /\ LocationFrame

\* the first call
L_Extract ==
    /\ fn.op = "loaded"
    /\ fn' = [fn EXCEPT !.op = "called",
                        !.first = extract_location(fn.text, fn.title, fn.order)]
    /\ LocationFrame

\* the second call, in the same process or in the restarted one
L_ExtractAgain ==
    /\ fn.op \in {"called", "reloaded"}
    /\ fn' = [fn EXCEPT !.op = "called twice",
                        !.second = extract_location(fn.text, fn.title, fn.order)]
    /\ LocationFrame

LocationNext == L_Load \/ L_Extract \/ L_ExtractAgain

LocationSpec == LocationInit /\ [][LocationNext]_vars

(***************************************************************************)
(* Properties of the verification and scoring engine (AnalystSpec)         *)
(***************************************************************************)
VerifyReturned == a_last.op = "verify_property" /\ a_pc = "verified"
AnalyzeReturned == a_last.op = "analyze_property" /\ a_pc \in {"done", "raised"}
Probed(codes) == a_last.probe.kind = "status" /\ a_last.probe.code \in codes
ProbeFailed ==
    \/ a_last.probe.kind = "error"
    \/ a_last.probe.kind = "status" /\ a_last.probe.code \notin 200..299
NoJson == a_last.reply.kind \in {"raise", "no_span", "bad_json"}
LlmCalls == {i \in 1..Len(calls) : calls[i] \in {"llm_verify", "llm_analyze"}}

\* C3 (funnel fail-open): with an LLM credential and a probe answered 200,
\* every reply without a decodable JSON object (no brace-delimited span, a
\* span that does not decode, a failed call) leaves verify_property's lead
\* at funnel_stage interesting with verification_result error.
C3_FailOpen ==
    (VerifyReturned /\ gemini_key /\ Probed({200}) /\ NoJson)
        => /\ prop.funnel_stage = Some("interesting")
           /\ prop.verification_result = Some("error")

\* C4 (liveness short-circuit): with an LLM credential, a probe that answers
\* a non-2xx status or fails with a network error ends verify_and_analyze
\* with the lead dismissed as invalid_url, a reason recorded, the time of
\* this verification stamped, and no LLM call issued at any step.
C4_LivenessShortCircuit ==
    (a_pc \in {"verified", "done", "raised"} /\ gemini_key /\ ProbeFailed)
        => /\ prop.funnel_stage = Some("dismissed")
           /\ prop.verification_result = Some("invalid_url")
           /\ TruthyText(prop.verification_reason)
           /\ prop.last_verified_at = Some(clock - 1)
           /\ LlmCalls = {}
           /\ a_pc # "raised"

C4_Witness ==
    /\ a_pc = "done" /\ gemini_key /\ Probed({404})
    /\ a_last.op = "skip_analyze"
    /\ a_last.input.funnel_stage = Some("discovered")
    /\ prop.funnel_stage = Some("dismissed")

\* C5: with an LLM credential, a probe answered with any 2xx status (200 to
\* 299) is not dismissed as invalid_url by verify_property: the
\* classification call is issued.
C5_Any2xxProceeds ==
    (VerifyReturned /\ gemini_key /\ Probed(200..299))
        => /\ prop.verification_result # Some("invalid_url")
           /\ \E i \in 1..Len(calls) : calls[i] = "llm_verify"

\* C6: without an LLM credential verify_property sets funnel_stage to
\* qualified and nothing else, the analyze step changes nothing, and neither
\* issues a probe or an LLM call.
C6_NoCredentialFrame ==
    (~gemini_key /\ a_pc # "start")
        => /\ prop = [a_last.input EXCEPT !.funnel_stage = Some("qualified")]
           /\ calls = <<>>
           /\ a_pc # "raised"

C6_Witness ==
    /\ ~gemini_key /\ a_pc = "done" /\ a_last.op = "analyze_property"
    /\ a_last.input.funnel_stage = Some("dismissed")
    /\ a_last.input.verification_result = Some("available")
    /\ prop.funnel_stage = Some("qualified")

\* C7 (inference precedence): a lead that has a bed_count, respectively an
\* acreage, before analyze_property has the same value after it, whatever
\* the analysis verdict infers.
C7_InferencePrecedence ==
    AnalyzeReturned
        => /\ a_last.pre.bed_count # None => prop.bed_count = a_last.pre.bed_count
           /\ a_last.pre.acreage # None => prop.acreage = a_last.pre.acreage

\* C8: analyze_property never changes funnel_stage, verification_result,
\* verification_reason or last_verified_at; when its LLM call fails or the
\* reply holds no decodable JSON object it returns the lead as it received
\* it; and no exception leaves it.
C8_AnalyzeFailureFrame ==
    AnalyzeReturned
        => /\ a_pc # "raised"
           /\ prop.funnel_stage = a_last.pre.funnel_stage
           /\ prop.verification_result = a_last.pre.verification_result
           /\ prop.verification_reason = a_last.pre.verification_reason
           /\ prop.last_verified_at = a_last.pre.last_verified_at
           /\ NoJson => prop = a_last.pre

C8_Witness ==
    /\ AnalyzeReturned /\ gemini_key /\ a_last.reply.kind = "bad_json"
    /\ a_last.pre.bed_count = None
    /\ prop = a_last.pre

(***************************************************************************)
(* Properties of the discovery engine (ScoutSpec)                          *)
(***************************************************************************)
FoundKeys == {normalize_url(found_properties[i].url) : i \in DOMAIN found_properties}
IsPrefix(s, t) == Len(s) <= Len(t) /\ SubSeq(t, 1, Len(s)) = s

\* every query find_candidates has to issue, in order
QueriesDue ==
    [i \in 1..Len(queries_to_run) |-> <<"exa", queries_to_run[i][1]>>]
        \o (IF tavily_key /\ custom_query = None
            THEN [i \in 1..Len(TavilyQueries) |-> <<"tavily", TavilyQueries[i]>>]
            ELSE <<>>)

\* C2: at every point of find_candidates, and so in the list it returns, no
\* lead's normalized URL is in the supplied known-URL set and no two leads
\* have the same normalized URL.
C2_NoKnownNoDuplicate ==
    /\ FoundKeys \cap existing_urls = {}
    /\ \A i, j \in DOMAIN found_properties :
         normalize_url(found_properties[i].url) = normalize_url(found_properties[j].url)
             => i = j

\* a call that is handed the listing as known and is returned it by both
\* providers, under several spellings, next to one news story
C2_Witness ==
    /\ s_pc = "returned" /\ existing_urls = {CampusUrl}
    /\ s_log.served = MaxResults /\ ~s_log.failed
    /\ Len(found_properties) = 1
    /\ found_properties[1].discovered_via = Some("tavily_news")
    /\ found_properties[1].url = StoryUrl \o <<"#", "top">>

\* C9 (per-query error isolation): no exception leaves find_candidates; once
\* it has returned, every query of the run was issued, whichever of them
\* failed; and no step, failing or not, removes or changes a lead that was
\* already accumulated.
C9_QueryIsolation ==
    /\ [](s_pc # "raised")
    /\ []((s_pc = "returned" /\ exa_key) => s_log.issued = QueriesDue)
    /\ [][IsPrefix(found_properties, found_properties')]_vars

\* the first query produced a lead, the last query (of the secondary
\* provider) produced another, both served results became leads, and a query
\* in between raised
C9_Witness ==
    /\ s_pc = "returned" /\ s_log.failed
    /\ Len(s_log.issued) >= 3
    /\ s_log.served = 2
    /\ Len(found_properties) = 2
    /\ found_properties[1].search_query = Some(s_log.issued[1][2])
    /\ found_properties[2].discovered_via = Some("tavily_news")
    /\ found_properties[2].search_query = Some(s_log.issued[Len(s_log.issued)][2])

\* every search call of every provider answers with the one hit h
AllAnswer(h, custom, cats) ==
    [i \in 1..(Len(BuildQueries(custom, cats)) + Len(TavilyPairs)) |->
        [kind |-> "results", hits |-> <<h>>]]

\* C13: an empty result for want of credentials needs total
\* misconfiguration: at the return of a call without custom query and with
\* the primary or the secondary credential configured, providers that
\* answer with a well-formed hit whose normalized URL is not known make
\* find_candidates return a lead; without any credential the call returns
\* the empty list and has issued no search call
C13_EmptyOnlyWithoutAnyCredential ==
    s_pc = "returned" =>
        /\ (~exa_key /\ ~tavily_key) =>
               found_properties = <<>> /\ s_log.issued = <<>>
        /\ ((exa_key \/ tavily_key) /\ custom_query = None) =>
               \A h \in {x \in Hits : x.valid /\ normalize_url(x.url) \notin existing_urls} :
                   find_candidates(exa_key, tavily_key, existing_urls, None,
                                   categories, AllAnswer(h, None, categories)).found
                       # <<>>

(***************************************************************************)
(* Properties of RerunSpec.                                                *)
(***************************************************************************)
\* C1: when discovery runs again with the same queries, the same provider
\* answers and the stored URLs of the leads the first run returned as its
\* known set, the second run returns no lead
C1_IdempotentDedup ==
    (s_replay.round = 2 /\ s_pc = "returned") => found_properties = <<>>

(***************************************************************************)
(* Properties of Spec.                                                     *)
(***************************************************************************)
\* C10: run_scout returns one lead for every lead discovery produced, in
\* discovery's order, whether the store is unavailable, the upsert succeeds
\* or the upsert raises; every lead of the batch is handed to
\* verify_and_analyze when verification is on, and a lead whose
\* verify_and_analyze raised is in the batch with funnel_stage interesting
C10_FullBatchReturned ==
    /\ r_pc = "returned" =>
          /\ Len(properties) = Len(r_log.discovered)
          /\ \A i \in DOMAIN properties : properties[i].url = r_log.discovered[i].url
          /\ \A i \in r_log.raised : properties[i].funnel_stage = Some("interesting")
    /\ (r_pc \in {"saving", "returned"} /\ should_verify /\ r_log.discovered # <<>>) =>
          r_log.handed = [i \in DOMAIN r_log.discovered |-> i]

\* two leads were discovered, verify_and_analyze raised on the first, the
\* second was verified and scored, the upsert raised, and both were returned
C10_Witness ==
    /\ r_pc = "returned"
    /\ Len(r_log.discovered) = 2
    /\ r_log.raised = {1}
    /\ r_log.upsert = "raised"
    /\ properties[2].funnel_stage = Some("qualified")
    /\ properties[2].score = Some(80)

(***************************************************************************)
(* Properties of StoreSpec.                                                *)
(***************************************************************************)
\* the requests ran one after the other: none read the known URLs while
\* another was in flight
Sequential == \A p \in Procs : runs[p].solo

\* C11: after any sequence of pipeline runs, one after the other, the store
\* never holds two distinct rows whose URLs normalize to the same value
C11_OneRowPerNormalizedUrl ==
    Sequential =>
        \A i, j \in DOMAIN store :
            normalize_url(store[i].url) = normalize_url(store[j].url) => i = j

\* C12: dismissed is terminal: no step of a pipeline run and no
\* re-verification takes a stored lead whose funnel_stage is dismissed to
\* another funnel_stage (rows are never deleted here, so row i stays row i)
C12_DismissedIsTerminal ==
    [][\A i \in DOMAIN store :
          store[i].funnel_stage = Some("dismissed") =>
              store'[i].funnel_stage = Some("dismissed")]_vars

\* C17: under every interleaving of two pipeline runs (and of the endpoints
\* that write a row) the store never holds two rows with the same url
C17_UrlUniqueUnderInterleaving ==
    \A i, j \in DOMAIN store : store[i].url = store[j].url => i = j

\* both runs read the known URLs before either had persisted anything, both
\* discovered the same URL, both upserts succeeded, and the store holds one
\* row: each run got row 1 back
C17_Witness ==
    /\ \A p \in Procs :
          /\ runs[p].pc = "done"
          /\ runs[p].known = {}
          /\ Len(runs[p].batch) = 1
          /\ runs[p].batch[1].id = Some(1)
          /\ runs[p].batch[1].url = CampusUrl \o <<"?", "ref">>
    /\ ~Sequential
    /\ Len(store) = 1


(***************************************************************************)
(* Further properties of verify_property (AnalystSpec)                     *)
(***************************************************************************)
\* the classification call returned text with a decodable JSON verdict
VerdictDecoded == VerifyReturned /\ gemini_key /\ a_last.reply.kind = "json"

\* the verdict supplies a non-null value under the key
Supplies(data, key) == key \in DOMAIN data /\ data[key] # None

\* the field is overwritten only with a non-null value of the verdict, and
\* keeps its prior value when the verdict has none
OverwrittenOnlyBy(field, key) ==
    LET data == a_last.reply.data
    IN  /\ prop[field] # a_last.pre[field] =>
              Supplies(data, key) /\ prop[field] = data[key]
        /\ ~Supplies(data, key) => prop[field] = a_last.pre[field]

\* C19: on a successful verify (URL reachable, reply with a decodable JSON
\* verdict) verification_result is available exactly when the verdict's
\* is_available is true and not_available otherwise, funnel_stage is the
\* verdict's classification (interesting when absent), last_verified_at is
\* stamped, and price, bed_count and acreage are each overwritten only by a
\* non-null value of the verdict and otherwise keep their prior value.
C19_VerdictApplied ==
    VerdictDecoded =>
        LET data == a_last.reply.data
        IN  /\ prop.verification_result
                  = (IF DictGet(data, "is_available") = Some(TRUE)
                     THEN Some("available") ELSE Some("not_available"))
            /\ prop.funnel_stage
                  = (IF "classification" \in DOMAIN data THEN data["classification"]
                     ELSE Some("interesting"))
            /\ prop.last_verified_at = Some(clock - 1)
            /\ OverwrittenOnlyBy("price", "extracted_price")
            /\ OverwrittenOnlyBy("bed_count", "extracted_beds")
            /\ OverwrittenOnlyBy("acreage", "extracted_acreage")

\* a persisted lead with 40 beds and no acreage, a verdict without
\* classification that extracts a price and an acreage and null beds
C19_Witness ==
    /\ VerdictDecoded /\ Probed({200})
    /\ a_last.pre.price = Some("$1M") /\ a_last.pre.bed_count = Some(40)
    /\ a_last.pre.acreage = None /\ a_last.pre.last_verified_at = Some(0)
    /\ a_last.reply.data
          = VerdictOf(Some(TRUE), Absent, Some("because"), Some("$2M"), None, Some(5))
    /\ prop.verification_result = Some("available")
    /\ prop.funnel_stage = Some("interesting")
    /\ prop.price = Some("$2M") /\ prop.bed_count = Some(40)
    /\ prop.acreage = Some(5) /\ prop.last_verified_at = Some(1)

\* the stages verification is to leave a lead in
VerifiedStages == {Some("qualified"), Some("interesting"), Some("dismissed")}

\* C21 (funnel-stage domain): with an LLM credential, for every lead and
\* every LLM response, verify_and_analyze leaves the lead's funnel_stage in
\* qualified, interesting or dismissed: never discovered, null or a text
\* outside the FunnelStage values.
C21_FunnelStageDomain ==
    (gemini_key /\ a_pc \in {"done", "raised"})
        => prop.funnel_stage \in VerifiedStages

\* verify_property leaves the lead in one of the three stages unless the
\* reply holds no JSON span, or the verdict's classification is null or a
\* text outside the three
C21_HoldsForWellFormedVerdicts ==
    (/\ gemini_key /\ VerifyReturned
     /\ a_last.reply.kind # "no_span"
     /\ a_last.reply.kind = "json" =>
            DictGetDefault(a_last.reply.data, "classification", Some("interesting"))
                \in VerifiedStages)
        => prop.funnel_stage \in VerifiedStages

(***************************************************************************)
(* Further properties of find_candidates (ScoutSpec)                       *)
(***************************************************************************)
\* the lead records a query that was issued and the channel of that query
RecordsItsQuery(p) ==
    /\ p.discovered_via # None /\ p.search_query # None
    /\ \E k \in DOMAIN s_log.issued :
          /\ s_log.issued[k][2] = p.search_query[1]
          /\ \/ /\ s_log.issued[k][1] = "tavily"
                /\ p.discovered_via[1] = "tavily_news"
             \/ /\ s_log.issued[k][1] = "exa"
                /\ \E q \in DOMAIN queries_to_run :
                      queries_to_run[q] = <<p.search_query[1], p.discovered_via[1]>>

\* the lead's source_type is what _determine_source_type gives for its url
\* and its channel
Classified(p) ==
    p.source_type = Some(determine_source_type(p.url, p.discovered_via[1]))

\* C16: every lead find_candidates returns, of either provider, has
\* source_type = classify_source_type(its url, its discovery channel), and
\* records the channel and the query that produced it.
C16_SourceTypeClassified ==
    s_pc = "returned" =>
        \A i \in DOMAIN found_properties :
            RecordsItsQuery(found_properties[i]) /\ Classified(found_properties[i])

\* the same, for the leads of the primary provider only
C16_PrimaryLeadsClassified ==
    s_pc = "returned" =>
        \A i \in DOMAIN found_properties :
            found_properties[i].discovered_via # Some("tavily_news") =>
                RecordsItsQuery(found_properties[i]) /\ Classified(found_properties[i])

\* the channel and query are recorded on every lead of either provider
C16_ChannelAndQueryRecorded ==
    s_pc = "returned" =>
        \A i \in DOMAIN found_properties : RecordsItsQuery(found_properties[i])

\* the query (its place in the run order) that first returned the lead's URL
FirstQuery(p) ==
    CHOOSE k \in DOMAIN s_log.issued : <<normalize_url(p.url), k>> \in s_log.first

\* the lead carries the channel and the query of the k-th call of the run
CarriesQuery(p, k) ==
    /\ p.search_query = Some(s_log.issued[k][2])
    /\ \/ s_log.issued[k][1] = "tavily" /\ p.discovered_via = Some("tavily_news")
       \/ /\ s_log.issued[k][1] = "exa"
          /\ \E q \in DOMAIN queries_to_run :
                queries_to_run[q] = <<p.search_query[1], p.discovered_via[1]>>

\* the leads are in the run order of the queries credited, and each carries
\* the channel and query of the first query that returned its URL
InDiscoveryOrder ==
    /\ \A i \in DOMAIN found_properties :
          CarriesQuery(found_properties[i], FirstQuery(found_properties[i]))
    /\ \A i, j \in DOMAIN found_properties :
          i < j => FirstQuery(found_properties[i]) <= FirstQuery(found_properties[j])

\* C18: the list find_candidates returns is in discovery order (custom query,
\* then the category queries of the primary provider in catalog order, then
\* the secondary provider), and a URL returned by several queries appears
\* exactly once, at the position of and with the channel and query of the
\* first query of the run order that returned it.
C18_DiscoveryOrderFirstCredit ==
    (s_pc = "returned" /\ exa_key) =>
        /\ s_log.issued = QueriesDue
        /\ InDiscoveryOrder
        /\ \A key \in s_log.several :
              key \notin existing_urls =>
                  Cardinality({i \in DOMAIN found_properties :
                                  normalize_url(found_properties[i].url) = key}) = 1

\* the same in the runs in which no query raised
C18_HoldsWhenNoQueryRaises ==
    ~s_log.failed => C18_DiscoveryOrderFirstCredit

\* C20: every hit returned by a query that completed without error, whose
\* normalized URL is not known, is represented by a lead in the result;
\* a normalized URL is in the in-run seen set only if a lead has it.
C20_DiscoveryComplete ==
    s_pc = "returned" =>
        /\ \A key \in s_log.clean : key \notin existing_urls => key \in FoundKeys
        /\ seen_urls \subseteq FoundKeys

\* the first half alone: the hits of the queries that ran to their end
C20_CleanHitsRepresented ==
    s_pc = "returned" =>
        \A key \in s_log.clean : key \notin existing_urls => key \in FoundKeys

\* the same in the runs in which no query raised
C20_HoldsWhenNoQueryRaises ==
    ~s_log.failed => C20_DiscoveryComplete

(***************************************************************************)
(* Further properties of the store requests (StoreSpec)                    *)
(***************************************************************************)
\* the step is the bulk upsert that ends request p
SavesBatch(p) == runs[p].pc = "save" /\ runs'[p].pc = "done"

\* the rows that were persisted when request p read the known URLs keep
\* their status, is_new, funnel_stage and dismissal reason in the step
KnownRowsKept(p) ==
    \A i \in DOMAIN store :
        store[i].url \in runs[p].known =>
            /\ store'[i].status = store[i].status
            /\ store'[i].is_new = store[i].is_new
            /\ store'[i].funnel_stage = store[i].funnel_stage
            /\ store'[i].dismissed_reason = store[i].dismissed_reason

\* C22 (pipeline runs only add leads): the bulk upsert at the end of a run
\* never modifies a row that was already persisted when the run read the
\* known URLs: its status, is_new, funnel_stage and dismissal fields are
\* unchanged by the run.
C22_RunsOnlyAddLeads ==
    [][\A p \in Procs : SavesBatch(p) => KnownRowsKept(p)]_vars

\* the same for requests that run strictly one after the other
C22_SequentialRunsOnlyAddLeads ==
    [][\A p \in Procs : (SavesBatch(p) /\ Sequential) => KnownRowsKept(p)]_vars

\* the same for the leads whose URL is stored in its normalized form
C22_HoldsForNormalizedUrls ==
    [][\A p \in Procs :
          (SavesBatch(p) /\ \A i \in DOMAIN store :
                               store[i].url = normalize_url(store[i].url))
              => KnownRowsKept(p)]_vars

(***************************************************************************)
(* Properties of _normalize_url (NormalizeSpec)                            *)
(***************************************************************************)
\* the part of a URL before its query string and fragment
PathOf(url) ==
    LET cut == {i \in 1..Len(url) : url[i] \in {"?", "#"}}
    IN  IF cut = {} THEN url
        ELSE SubSeq(url, 1, (CHOOSE i \in cut : \A j \in cut : i <= j) - 1)

\* a path without its one trailing slash
DropSlash(path) ==
    IF path # <<>> /\ path[Len(path)] = "/"
    THEN SubSeq(path, 1, Len(path) - 1) ELSE path

\* the two URLs differ only by query string, fragment or a trailing slash
SameButQueryFragmentSlash(a, b) == DropSlash(PathOf(a)) = DropSlash(PathOf(b))

\* C14: normalize_url gives two URLs that differ only by query string,
\* fragment or a trailing slash the same canonical string, and normalizing
\* a canonical string gives it back (idempotence).
C14_NormalizeCollapsesAndIsIdempotent ==
    /\ (fn.op \in {"normalized", "renormalized"}
          /\ SameButQueryFragmentSlash(fn.a, fn.b)) => fn.ra = fn.rb
    /\ fn.op = "renormalized" => fn.again = fn.ra

\* x?x and x/ have both been normalized to x, and x normalized again
C14_Witness ==
    /\ fn.op = "renormalized"
    /\ fn.a = <<"x", "?", "x">> /\ fn.b = <<"x", "/">>
    /\ fn.ra = <<"x">> /\ fn.rb = <<"x">> /\ fn.again = <<"x">>


(***************************************************************************)
(* Properties of _extract_location (LocationSpec)                          *)
(***************************************************************************)
\* C15: extract_location is deterministic: two invocations on the same
\* (text, title) return the same location string, also when the text has no
\* valid `City, ST` and holds standalone tokens of several state codes.
C15_ExtractLocationDeterministic ==
    fn.op = "called twice" => fn.first = fn.second

\* two invocations within one process return the same string
C15_SameWithinOneProcess ==
    (fn.op = "called twice" /\ fn.processes = 1) => fn.first = fn.second

====
